---- MODULE Spec2Model ----
(***************************************************************************)
(* State-machine model of the DESAK storefront script (src/script.js):     *)
(* the catalog index, the cart and the wishlist kept in localStorage, the  *)
(* subtotal shown in the cart drawer and the "added" toast with its timer. *)
(***************************************************************************)
EXTENDS Integers, Sequences, FiniteSets, TLC

(* ------------------------------ bounds ------------------------------ *)
\* Largest absolute quantity a cart line may reach in the model.
MaxQty == 3
\* Quantities and deltas passed to addToCart / changeCartQty: -MaxStep..MaxStep.
MaxStep == 2

(* --------------------------- JS primitives -------------------------- *)
\* A JavaScript number: an integer value or NaN.
Num(n) == [nan |-> FALSE, v |-> n]
NaN == [nan |-> TRUE, v |-> 0]

\* Truthiness of a number (0 and NaN are falsy) and of a string ("" is falsy).
TruthyNum(x) == ~x.nan /\ x.v # 0
TruthyStr(s) == s # ""

\* Text that is converted to a number is kept as a sequence of characters.
Digits == <<"0", "1", "2", "3", "4", "5", "6", "7", "8", "9">>
DigitValue(c) == (CHOOSE i \in 1..10 : Digits[i] = c) - 1
IsDigit(c) == \E i \in 1..10 : Digits[i] = c

RECURSIVE DecimalValue(_, _)
DecimalValue(chars, acc) ==
  IF chars = <<>> THEN acc
  ELSE DecimalValue(Tail(chars), acc * 10 + DigitValue(Head(chars)))

\* Number(text): the empty text is 0, a run of decimal digits is its value,
\* any other text of the model's alphabet is NaN.
NumberOfText(chars) ==
  IF chars = <<>> THEN Num(0)
  ELSE IF \A i \in 1..Len(chars) : IsDigit(chars[i]) THEN Num(DecimalValue(chars, 0))
  ELSE NaN

\* text.replace(/[^\d]/g, "")
StripNonDigits(chars) == SelectSeq(chars, IsDigit)

(* ------------------------- the static catalog ----------------------- *)
Product(id, title, price, image, url) ==
  [id |-> id, title |-> title, price |-> Num(price), image |-> image,
   url |-> url, shopify |-> ""]

PRODUCTS == <<
  Product("101", "Unisex Hoodie", 1099,
          "https://desak-sak.myshopify.com/cdn/shop/files/Back_2_c_10_584ee972-23d2-4339-b7af-61cba4019ebb.jpg?v=1763120934&width=832",
          "https://desak-sak.myshopify.com/products/unisex-hoodie-5?variant=58376455094353"),
  Product("102", "Oslo Grey Hoodie", 1399,
          "https://via.placeholder.com/800x1000?text=Oslo+Grey+Hoodie",
          "https://desak-sak.myshopify.com/products/oslo-grey-hoodie"),
  Product("103", "Arctic White Hoodie", 1499,
          "https://via.placeholder.com/800x1000?text=Arctic+White+Hoodie",
          "https://desak-sak.myshopify.com/products/arctic-white-hoodie"),
  Product("201", "Classic Grey Hoodie", 1299,
          "https://via.placeholder.com/800x1000?text=Classic+Grey+Hoodie",
          "https://desak-sak.myshopify.com/products/classic-grey-hoodie"),
  Product("202", "Beige Fleece Hoodie", 2499,
          "https://via.placeholder.com/800x1000?text=Beige+Fleece+Hoodie",
          "https://desak-sak.myshopify.com/products/beige-fleece-hoodie"),
  Product("203", "Black Oversized Hoodie", 2199,
          "https://via.placeholder.com/800x1000?text=Black+Oversized+Hoodie",
          "https://desak-sak.myshopify.com/products/black-oversized-hoodie"),
  Product("204", "Urban Zip Hoodie", 1899,
          "https://via.placeholder.com/800x1000?text=Urban+Zip+Hoodie",
          "https://desak-sak.myshopify.com/products/urban-zip-hoodie"),
  Product("301", "Milan Beige Sweatshirt", 999,
          "https://via.placeholder.com/800x1000?text=Milan+Beige+Sweatshirt",
          "https://desak-sak.myshopify.com/products/milan-beige-sweatshirt"),
  Product("302", "Harbor Navy Sweatshirt", 1099,
          "https://via.placeholder.com/800x1000?text=Harbor+Navy+Sweatshirt",
          "https://desak-sak.myshopify.com/products/harbor-navy-sweatshirt"),
  Product("401", "Arctic Wool Scarf", 699,
          "https://via.placeholder.com/800x1000?text=Arctic+Wool+Scarf",
          "https://desak-sak.myshopify.com/products/arctic-wool-scarf"),
  Product("402", "Nordic Winter Scarf", 799,
          "https://via.placeholder.com/800x1000?text=Nordic+Winter+Scarf",
          "https://desak-sak.myshopify.com/products/nordic-winter-scarf") >>

(* --------------------- product cards of the page -------------------- *)
\* A .product-card element: its data-* attributes ("" when absent), the text
\* of its .product-title and .product-price children and its img src.
Card(id, title, dataPrice, priceText, link, shopify, img) ==
  [id |-> id, title |-> title, titleText |-> "", dataPrice |-> dataPrice,
   priceText |-> priceText, link |-> link, shopify |-> shopify, img |-> img]

\* The cards written in the page's markup, one page per element: a page
\* that sells a product the static list does not have, with a variant
\* reference and with a data-price that carries a currency sign.
Pages == {
  << Card("501", "Canvas Tote", <<"R", "s", "5", "0", "0">>, <<>>, "/tote", "V1",
          "tote.jpg") >> }

\* The same page without the variant reference on its card
ToteWithoutVariant ==
  << Card("501", "Canvas Tote", <<"R", "s", "5", "0", "0">>, <<>>, "/tote", "",
          "tote.jpg") >>

\* The markups the host page switches between while the checkout is used
CheckoutPages == Pages \cup {ToteWithoutVariant}

\* A page with two cards for the tote: the first has neither title nor link,
\* image or variant reference and a data-price with a currency sign, the
\* second has every attribute.
TwoTotes ==
  << Card("501", "", <<"R", "s", "5", "0", "0">>, <<>>, "", "", ""),
     Card("501", "Tote Bag", <<"6", "5", "0">>, <<>>, "/bag", "V2", "bag.jpg") >>

\* A page with a card for a product of the static list and two cards for the
\* tote: the first takes its price from the text of its price element and
\* has no variant reference, the second has every attribute.
HoodieAndTotes ==
  << Card("101", "Hoodie X", <<"1">>, <<>>, "/x", "V9", "x.jpg"),
     Card("501", "Canvas Tote", <<>>, <<"R", "s", " ", "4", "5", "0">>, "/tote", "",
          "tote.jpg"),
     Card("501", "Tote II", <<"6", "5", "0">>, <<>>, "/tote2", "V1", "tote2.jpg") >>

\* The markups the host page switches between while the catalog is rebuilt
CatalogPages == Pages \cup {TwoTotes, HoodieAndTotes}

(* -------------------------- buildProductsIndex ---------------------- *)
\* PRODUCTS.forEach(p => PRODUCTS_INDEX[String(p.id)] = { ...p })
SeedIndex == [id \in {PRODUCTS[i].id : i \in 1..Len(PRODUCTS)} |->
                (CHOOSE p \in {PRODUCTS[i] : i \in 1..Len(PRODUCTS)} : p.id = id)]

\* One card merged into the index: every field keeps the value it has and
\* takes the card's value only when it has none.
MergeCard(index, card) ==
  LET id == card.id
      title == IF TruthyStr(card.title) THEN card.title ELSE card.titleText
      priceRaw == IF card.dataPrice # <<>> THEN card.dataPrice
                  ELSE StripNonDigits(card.priceText)
      known == id \in DOMAIN index
      existing == IF known THEN index[id]
                  ELSE [id |-> id, title |-> "", price |-> Num(0), image |-> "",
                        url |-> "", shopify |-> ""]
      merged == [id |-> existing.id,
                 title |-> IF TruthyStr(existing.title) THEN existing.title
                           ELSE IF TruthyStr(title) THEN title
                           ELSE "Product " \o id,
                 price |-> IF TruthyNum(existing.price) THEN existing.price
                           ELSE IF priceRaw # <<>> THEN NumberOfText(priceRaw)
                           ELSE Num(0),
                 image |-> IF TruthyStr(existing.image) THEN existing.image ELSE card.img,
                 url |-> IF TruthyStr(existing.url) THEN existing.url ELSE card.link,
                 shopify |-> IF TruthyStr(existing.shopify) THEN existing.shopify
                             ELSE card.shopify]
  IN IF ~TruthyStr(id) THEN index
     ELSE [i \in DOMAIN index \cup {id} |-> IF i = id THEN merged ELSE index[i]]

RECURSIVE MergeCards(_, _)
MergeCards(index, cards) ==
  IF cards = <<>> THEN index
  ELSE MergeCards(MergeCard(index, Head(cards)), Tail(cards))

buildProductsIndex(cards) == MergeCards(SeedIndex, cards)

(* ----------------------------- JS values ---------------------------- *)
\* A value a variable of the script may hold: an array with its elements, or
\* a value of another type, of which only the type matters here.
JSArray(items) == [type |-> "array", items |-> items]
JSOther(type) == [type |-> type, items |-> <<>>]
IsArray(v) == v.type = "array"

(* --------------------------- localStorage --------------------------- *)
CART_KEY == "desak_desak_cart_v2"
WISHLIST_KEY == "desak_desak_wishlist_v2"

\* String(n) for an integer, as characters.
RECURSIVE NatToText(_)
NatToText(n) == IF n < 10 THEN <<Digits[n + 1]>>
                ELSE NatToText(n \div 10) \o <<Digits[(n % 10) + 1]>>
IntToText(n) == IF n < 0 THEN <<"-">> \o NatToText(-n) ELSE NatToText(n)

\* A JSON number token read back: an optional minus sign and decimal digits.
JSONNumber(chars) ==
  IF chars # <<>> /\ Head(chars) = "-" THEN -DecimalValue(Tail(chars), 0)
  ELSE DecimalValue(chars, 0)

\* JSON.stringify of an array, the text kept as its syntax tree. A cart line
\* is written as an object whose numbers are decimal tokens, a wishlist id
\* as a string.
StringifyLine(x) ==
  [json |-> "object", id |-> x.id, title |-> x.title, price |-> IntToText(x.price),
   qty |-> IntToText(x.qty), img |-> x.img, variant |-> x.variant]
StringifyId(x) == [json |-> "string", s |-> x]
JSONstringifyLines(v) ==
  [json |-> "array", items |-> [i \in 1..Len(v) |-> StringifyLine(v[i])]]
JSONstringifyIds(v) ==
  [json |-> "array", items |-> [i \in 1..Len(v) |-> StringifyId(v[i])]]

\* JSON.parse of an array element
ParseItem(t) ==
  IF t.json = "string" THEN t.s
  ELSE [id |-> t.id, title |-> t.title, price |-> JSONNumber(t.price),
        qty |-> JSONNumber(t.qty), img |-> t.img, variant |-> t.variant]

\* localStorage.getItem gives null for a key that was never set.
Absent == [json |-> "absent"]

\* safeJSON(s, fallback): JSON.parse(s), the fallback when it throws.
safeJSON(s, fallback) ==
  IF s.json = "invalid" THEN fallback
  ELSE IF s.json = "array"
       THEN JSArray([i \in 1..Len(s.items) |-> ParseItem(s.items[i])])
  ELSE JSOther(s.json)

\* loadJSON(k, fallback) on the storage ls
loadJSON(ls, k, fallback) ==
  IF ls[k] = Absent THEN fallback ELSE safeJSON(ls[k], fallback)

\* Mutant of LoadList: the Array.isArray check is missing.
LoadListUnchecked(ls, k) == loadJSON(ls, k, JSArray(<<>>))

\* let CART = loadJSON(CART_KEY, []); if (!Array.isArray(CART)) CART = [];
\* and the same two statements for WISHLIST.
LoadList(ls, k) ==
  LET v == loadJSON(ls, k, JSArray(<<>>))
  IN IF ~IsArray(v) THEN JSArray(<<>>) ELSE v

\* Mutant of saveJSON: the text is never written.
saveJSONDropped(ls, quota, k, text) == ls

\* Mutant of saveJSON: the text is written under every key.
saveJSONAnyKey(ls, quota, k, text) ==
  IF quota THEN ls ELSE [j \in DOMAIN ls |-> text]

\* saveJSON(k, v) with v already serialized to text: setItem throws when the
\* quota is exceeded and the error is caught, leaving the stored text as it was.
saveJSON(ls, quota, k, text) ==
  IF quota THEN ls ELSE [ls EXCEPT ![k] = text]

\* if (!Array.isArray(X)) X = [];  the elements the operations work on
Items(v) == IF IsArray(v) THEN v.items ELSE <<>>

(* ------------------------ renderProductsToGrids --------------------- *)
\* String(p.price) and the digits formatINR(p.price) prints after the sign
NumToText(x) == IF x.nan THEN <<"N", "a", "N">> ELSE IntToText(x.v)
formatINR(x) == <<"Rs">> \o (IF x.nan THEN <<"0">> ELSE IntToText(x.v))

\* The product ids of the four grids, in document order.
GridIds == <<"101", "102", "103", "201", "201", "202", "203", "204",
             "301", "302", "401", "402">>

\* Mutant of GridCard: a card without variant reference gets the product id
\* as data-shopify.
GridCardStamped(p) ==
  [id |-> p.id, title |-> p.title, titleText |-> p.title,
   dataPrice |-> NumToText(p.price), priceText |-> formatINR(p.price),
   link |-> p.url, shopify |-> IF p.shopify # "" THEN p.shopify ELSE p.id,
   img |-> p.image]

\* The card written into a grid for product p
GridCard(p) ==
  [id |-> p.id, title |-> p.title, titleText |-> p.title,
   dataPrice |-> NumToText(p.price), priceText |-> formatINR(p.price),
   link |-> p.url, shopify |-> p.shopify, img |-> p.image]

\* The cards of the grids, for the ids the index knows
renderProductsToGrids(index) ==
  LET known == SelectSeq(GridIds, LAMBDA pid : pid \in DOMAIN index)
  IN [i \in 1..Len(known) |-> GridCard(index[known[i]])]

\* buildProductsIndex(); renderProductsToGrids(); buildProductsIndex();
\* the markup's cards precede the grids in the document.
GridsAtLoad(markup) == renderProductsToGrids(buildProductsIndex(markup))
IndexAtLoad(markup) ==
  buildProductsIndex(markup \o renderProductsToGrids(buildProductsIndex(markup)))

(* ------------------------------- state ------------------------------ *)
VARIABLES
  page,            \* the product cards of the page's markup
  PRODUCTS_INDEX,  \* id -> product
  CART,            \* the cart: a JS value, an array of lines
  WISHLIST,        \* the wishlist: a JS value, an array of ids
  localStorage,    \* key -> stored text
  quotaExceeded,   \* localStorage.setItem throws in this session
  cartSubtotal,    \* DOM.cartSubtotal.innerText, as a number
  toast,           \* the toast element: shown or not, and its message
  toastTimer,      \* the handle kept in toastTimer, 0 for null
  timers,          \* the pending timers: [id, fn]
  grids,           \* the product cards renderProductsToGrids wrote
  location,        \* window.location.href
  alerted,         \* the message of the last alert(), "" for none
  clipboard,       \* the text on the system clipboard
  searchTimer,     \* the handle kept in searchTimer, 0 for null
  searchInput,     \* DOM.searchInput.value
  searchResults,   \* what renderSearchResults wrote into DOM.searchResults
  desakCart,       \* the text stored under 'desakCart' (the name-keyed cart)
  thrown,          \* the exception that left the last handler, "" for none
  cartDisplay,     \* the name-keyed cart page: its list, total and empty note
  cartToast,       \* the name-keyed cart's toast: shown or not, and the name
  hideTimeout,     \* the handle kept in toast.hideTimeout, 0 for undefined
  last             \* the name of the last operation that ran

vars == <<page, PRODUCTS_INDEX, CART, WISHLIST, localStorage, quotaExceeded,
          cartSubtotal, toast, toastTimer, timers, grids, location, alerted,
          clipboard, searchTimer, searchInput, searchResults, desakCart, thrown,
          cartDisplay, cartToast, hideTimeout, last>>

\* The catalog with the cards it is built from, and what the browser shows
\* outside the page
catalog == <<page, grids, PRODUCTS_INDEX>>
browser == <<location, alerted, clipboard>>
\* The search overlay
search == <<searchTimer, searchInput, searchResults>>
\* The name-keyed cart of the other page variant
named == <<desakCart, thrown, cartDisplay, cartToast, hideTimeout>>

Did(op) == last' = op

(* ------------------------------ timers ------------------------------ *)
\* setTimeout returns a handle that no pending timer has and that is not
\* among the handles of earlier timers the script still holds.
\* CONFIG and the delay of the name-keyed cart's toast, in milliseconds
TOAST_DURATION == 2600
DEBOUNCE_MS == 160
CART_TOAST_MS == 3000

NewTimerId(pending, held) ==
  CHOOSE i \in 1..(Cardinality(pending) + Cardinality(held) + 1) :
    i \notin held /\ \A t \in pending : t.id # i
\* Mutant of clearTimeout: the timer stays pending.
clearTimeoutIgnored(pending, handle) == pending
clearTimeout(pending, handle) == {t \in pending : t.id # handle}
setTimeout(pending, held, fn, ms) ==
  pending \cup {[id |-> NewTimerId(pending, held), fn |-> fn, ms |-> ms]}

(* --------------------------- cart helpers --------------------------- *)
\* renderCartDrawer: the subtotal it writes into DOM.cartSubtotal
RECURSIVE SubtotalFrom(_, _)
SubtotalFrom(lines, subtotal) ==
  IF lines = <<>> THEN subtotal
  ELSE SubtotalFrom(Tail(lines), subtotal + Head(lines).price * Head(lines).qty)
\* Mutant of renderCartDrawer: the subtotal adds the prices, not price * qty.
renderCartDrawerPrices(cart) ==
  IF ~IsArray(cart) \/ Len(cart.items) = 0 THEN 0
  ELSE SubtotalFrom([i \in 1..Len(cart.items) |-> [cart.items[i] EXCEPT !.qty = 1]], 0)

renderCartDrawer(cart) ==
  IF ~IsArray(cart) \/ Len(cart.items) = 0 THEN 0
  ELSE SubtotalFrom(cart.items, 0)

\* Mutant of FindIndex: the comparison never matches.
FindIndexNone(lines, id) == 0

\* CART.findIndex(it => String(it.id) === String(id)), 0 for -1
FindIndex(lines, id) ==
  IF \E i \in 1..Len(lines) : lines[i].id = id
  THEN CHOOSE i \in 1..Len(lines) :
         lines[i].id = id /\ \A j \in 1..(i - 1) : lines[j].id # id
  ELSE 0

\* saveCart / saveWishlist
saveCart(ls, quota, cart) ==
  saveJSON(ls, quota, CART_KEY, JSONstringifyLines(Items(cart)))
saveWishlist(ls, quota, wishlist) ==
  saveJSON(ls, quota, WISHLIST_KEY, JSONstringifyIds(Items(wishlist)))

\* The line addToCart pushes for product p
NewLine(id, p, qty) ==
  [id |-> id, title |-> p.title,
   price |-> IF TruthyNum(p.price) THEN p.price.v ELSE 0,
   qty |-> IF qty # 0 THEN qty ELSE 1,
   img |-> p.image, variant |-> p.shopify]

\* Mutant of CartAfterAdd: an existing line's quantity is set, not increased.
CartAfterAddOverwrite(lines, id, p, qty) ==
  IF FindIndex(lines, id) # 0 THEN [lines EXCEPT ![FindIndex(lines, id)].qty = qty]
  ELSE Append(lines, NewLine(id, p, qty))

\* Mutant of CartAfterAdd: an existing line takes the catalog's price anew.
CartAfterAddRepricing(lines, id, p, qty) ==
  IF FindIndex(lines, id) # 0
  THEN [lines EXCEPT ![FindIndex(lines, id)] =
          [@ EXCEPT !.qty = @ + qty, !.price = NewLine(id, p, qty).price]]
  ELSE Append(lines, NewLine(id, p, qty))

\* CART after addToCart(id, qty) for a product of the index
CartAfterAdd(lines, id, p, qty) ==
  LET i == FindIndex(lines, id)
  IN IF i # 0 THEN [lines EXCEPT ![i].qty = @ + qty]
     ELSE Append(lines, NewLine(id, p, qty))

\* Mutant of CartAfterChange: a line is removed only below 0, not at 0.
CartAfterChangeBelowZero(lines, i, delta) ==
  LET changed == [lines EXCEPT ![i].qty = @ + delta]
  IN IF changed[i].qty < 0
     THEN SubSeq(changed, 1, i - 1) \o SubSeq(changed, i + 1, Len(changed))
     ELSE changed

\* CART after changeCartQty(id, delta) when the line is at index i
CartAfterChange(lines, i, delta) ==
  LET changed == [lines EXCEPT ![i].qty = @ + delta]
  IN IF changed[i].qty <= 0
     THEN SubSeq(changed, 1, i - 1) \o SubSeq(changed, i + 1, Len(changed))
     ELSE changed

\* Mutant of CartWithout: the lines behind the removed one go with it.
CartWithoutTruncating(lines, id) ==
  IF FindIndex(lines, id) = 0 THEN lines
  ELSE SubSeq(lines, 1, FindIndex(lines, id) - 1)

\* CART.filter(it => String(it.id) !== String(id))
CartWithout(lines, id) == SelectSeq(lines, LAMBDA it : it.id # id)

\* Every quantity of the lines is within the model's bound.
WithinBound(lines) ==
  \A i \in 1..Len(lines) : lines[i].qty >= -MaxQty /\ lines[i].qty <= MaxQty

(* ------------------------------- toast ------------------------------ *)
\* showAddedToast(product): show, clear the pending timer, start a new one
showAddedToast(p) ==
  /\ toast' = [show |-> TRUE, message |-> "Added - " \o p.title]
  /\ LET cleared == clearTimeout(timers, toastTimer)
     IN /\ toastTimer' = NewTimerId(cleared, {searchTimer})
        /\ timers' = setTimeout(cleared, {searchTimer}, "hideToast", TOAST_DURATION)

\* hideToast(): hide and clear the timer; the handle is kept
hideToast ==
  /\ toast' = [toast EXCEPT !.show = FALSE]
  /\ timers' = clearTimeout(timers, toastTimer)
  /\ UNCHANGED toastTimer

(* ---------------------------- cart actions -------------------------- *)
\* const p = PRODUCTS_INDEX[String(id)]: the product, or undefined
Undefined == [id |-> "", title |-> "", price |-> NaN, image |-> "", url |-> "",
              shopify |-> ""]
\* Mutant of LookupProduct: an unknown id gets an empty product instead of
\* ending the call.
LookupProductAny(index, id) ==
  IF id \in DOMAIN index THEN [found |-> TRUE, p |-> index[id]]
  ELSE [found |-> TRUE, p |-> [Undefined EXCEPT !.id = id]]

LookupProduct(index, id) ==
  IF id \in DOMAIN index THEN [found |-> TRUE, p |-> index[id]]
  ELSE [found |-> FALSE, p |-> Undefined]

addToCart(id, qty, showToast) ==
  LET lines == Items(CART)
      looked == LookupProduct(PRODUCTS_INDEX, id)
  IN /\ Did("addToCart")
     /\ IF ~looked.found
        THEN /\ CART' = JSArray(lines)
             /\ UNCHANGED <<localStorage, cartSubtotal, toast, toastTimer, timers>>
        ELSE LET p == looked.p
                 after == CartAfterAdd(lines, id, p, qty)
             IN /\ WithinBound(after)
                /\ CART' = JSArray(after)
                /\ localStorage' = saveCart(localStorage, quotaExceeded, CART')
                /\ cartSubtotal' = renderCartDrawer(CART')
                /\ IF showToast THEN showAddedToast(p)
                   ELSE UNCHANGED <<toast, toastTimer, timers>>
     /\ UNCHANGED <<catalog, browser, search, named, WISHLIST, quotaExceeded>>

\* Mutant of removeCartItem: a failed write ends the call before the drawer
\* is rendered.
removeCartItemThrowing(id) ==
  /\ Did("removeCartItem")
  /\ CART' = JSArray(CartWithout(Items(CART), id))
  /\ localStorage' = saveCart(localStorage, quotaExceeded, CART')
  /\ cartSubtotal' = IF quotaExceeded THEN cartSubtotal ELSE renderCartDrawer(CART')
  /\ UNCHANGED <<catalog, browser, search, named, WISHLIST, quotaExceeded, toast, toastTimer, timers>>

removeCartItem(id) ==
  /\ Did("removeCartItem")
  /\ CART' = JSArray(CartWithout(Items(CART), id))
  /\ localStorage' = saveCart(localStorage, quotaExceeded, CART')
  /\ cartSubtotal' = renderCartDrawer(CART')
  /\ UNCHANGED <<catalog, browser, search, named, WISHLIST, quotaExceeded, toast, toastTimer, timers>>

changeCartQty(id, delta) ==
  LET lines == Items(CART)
      i == FindIndex(lines, id)
  IN /\ Did("changeCartQty")
     /\ IF i = 0
        THEN /\ CART' = JSArray(lines)
             /\ UNCHANGED <<localStorage, cartSubtotal>>
        ELSE LET after == CartAfterChange(lines, i, delta)
             IN /\ WithinBound(after)
                /\ CART' = JSArray(after)
                /\ localStorage' = saveCart(localStorage, quotaExceeded, CART')
                /\ cartSubtotal' = renderCartDrawer(CART')
     /\ UNCHANGED <<catalog, browser, search, named, WISHLIST, quotaExceeded, toast, toastTimer, timers>>

\* clearCart(): confirmed is the answer to the confirm() prompt
\* Mutant of clearCart: the answer to the prompt is not looked at.
clearCartUnasked(confirmed) ==
  /\ Did("clearCart")
  /\ CART' = JSArray(<<>>)
  /\ localStorage' = saveCart(localStorage, quotaExceeded, CART')
  /\ cartSubtotal' = renderCartDrawer(CART')
  /\ UNCHANGED <<catalog, browser, search, named, WISHLIST, quotaExceeded, toast, toastTimer, timers>>

clearCart(confirmed) ==
  /\ Did("clearCart")
  /\ IF ~confirmed
     THEN UNCHANGED <<CART, localStorage, cartSubtotal>>
     ELSE /\ CART' = JSArray(<<>>)
          /\ localStorage' = saveCart(localStorage, quotaExceeded, CART')
          /\ cartSubtotal' = renderCartDrawer(CART')
  /\ UNCHANGED <<catalog, browser, search, named, WISHLIST, quotaExceeded, toast, toastTimer, timers>>

(* -------------------------- wishlist actions ------------------------ *)
\* isWishlisted(id): WISHLIST.includes(String(id))
isWishlisted(wishlist, id) ==
  IF ~IsArray(wishlist) THEN FALSE
  ELSE \E i \in 1..Len(wishlist.items) : wishlist.items[i] = id

\* WISHLIST.filter(x => String(x) !== id)
WishlistWithout(ids, id) == SelectSeq(ids, LAMBDA x : x # id)

\* Mutant of WishlistAfterToggle: the id is pushed whether present or not.
WishlistAfterToggleAppend(wishlist, id) == Append(Items(wishlist), id)

\* Mutant of WishlistAfterToggle: a new id goes to the front (unshift).
WishlistAfterToggleFront(wishlist, id) ==
  IF isWishlisted(wishlist, id) THEN WishlistWithout(Items(wishlist), id)
  ELSE <<id>> \o Items(wishlist)

\* WISHLIST after toggleWishlist(id)
WishlistAfterToggle(wishlist, id) ==
  IF isWishlisted(wishlist, id) THEN WishlistWithout(Items(wishlist), id)
  ELSE Append(Items(wishlist), id)

toggleWishlist(id) ==
  /\ Did("toggleWishlist")
  /\ WISHLIST' = JSArray(WishlistAfterToggle(WISHLIST, id))
  /\ localStorage' = saveWishlist(localStorage, quotaExceeded, WISHLIST')
  /\ UNCHANGED <<catalog, browser, search, named, CART, quotaExceeded, cartSubtotal, toast,
                 toastTimer, timers>>

\* renderWishlistDrawer draws the two buttons for the wishlist ids that the
\* index knows; a click can only come from a drawn button.
\* Mutant of DrawerIds: buttons are drawn for every wishlist id (the
\* `if (!p) return` is left out).
DrawerIdsUnchecked == {Items(WISHLIST)[i] : i \in 1..Len(Items(WISHLIST))}
DrawerIds == {id \in DOMAIN PRODUCTS_INDEX : isWishlisted(WISHLIST, id)}

\* click on .add-from-wishlist: addToCart(id, 1, true), then the id leaves
\* the wishlist
WishlistDrawerAdd(id) ==
  LET looked == LookupProduct(PRODUCTS_INDEX, id)
      p == looked.p
      after == IF looked.found THEN CartAfterAdd(Items(CART), id, p, 1) ELSE Items(CART)
  IN /\ id \in DrawerIds
     /\ Did("add-from-wishlist")
     /\ WithinBound(after)
     /\ CART' = JSArray(after)
     /\ IF looked.found
        THEN cartSubtotal' = renderCartDrawer(CART') /\ showAddedToast(p)
        ELSE UNCHANGED <<cartSubtotal, toast, toastTimer, timers>>
     /\ WISHLIST' = JSArray(WishlistWithout(WISHLIST.items, id))
     /\ localStorage' =
          saveWishlist(IF looked.found THEN saveCart(localStorage, quotaExceeded, CART')
                       ELSE localStorage,
                       quotaExceeded, WISHLIST')
     /\ UNCHANGED <<catalog, browser, search, named, quotaExceeded>>

\* click on .remove-from-wishlist
WishlistDrawerRemove(id) ==
  /\ id \in DrawerIds
  /\ Did("remove-from-wishlist")
  /\ WISHLIST' = JSArray(WishlistWithout(WISHLIST.items, id))
  /\ localStorage' = saveWishlist(localStorage, quotaExceeded, WISHLIST')
  /\ UNCHANGED <<catalog, browser, search, named, CART, quotaExceeded, cartSubtotal, toast,
                 toastTimer, timers>>

(* --------------------------- toast actions -------------------------- *)
\* The toast's timer fires: the timer is no longer pending, hideToast runs.
ToastFires(t) ==
  /\ LET rest == timers \ {t}
     IN /\ toast' = [toast EXCEPT !.show = FALSE]
        /\ timers' = clearTimeout(rest, toastTimer)
  /\ Did("toast-timeout")
  /\ UNCHANGED <<catalog, browser, search, named, CART, WISHLIST, localStorage, quotaExceeded,
                 cartSubtotal, toastTimer>>
\* ... at any moment (delays left out)
ToastTimeout == \E t \in timers : t.fn = "hideToast" /\ ToastFires(t)
\* ... once its delay has passed
ToastExpiry == \E t \in timers : t.fn = "hideToast" /\ t.ms = 0 /\ ToastFires(t)

\* d milliseconds pass: every pending timer has that much less to wait.
Elapse(d) ==
  /\ timers' = {[t EXCEPT !.ms = IF @ > d THEN @ - d ELSE 0] : t \in timers}
  /\ Did("elapse")
  /\ UNCHANGED <<catalog, browser, search, named, CART, WISHLIST, localStorage, quotaExceeded,
                 cartSubtotal, toast, toastTimer>>

\* click on the toast's close or view button (bound by showAddedToast)
ToastClose ==
  /\ toast.show
  /\ Did("toast-close")
  /\ hideToast
  /\ UNCHANGED <<catalog, browser, search, named, CART, WISHLIST, localStorage, quotaExceeded,
                 cartSubtotal>>

(* ------------------------------ checkout ---------------------------- *)
SHOP_DOMAIN == "desak-sak.myshopify.com"

\* Characters put together into a string, and strings joined with a separator
RECURSIVE StringOf(_)
StringOf(chars) == IF chars = <<>> THEN "" ELSE Head(chars) \o StringOf(Tail(chars))
RECURSIVE join(_, _)
join(strs, sep) ==
  IF strs = <<>> THEN ""
  ELSE IF Len(strs) = 1 THEN strs[1]
  ELSE strs[1] \o sep \o join(Tail(strs), sep)

\* s.trim() for the blanks of the model's alphabet, and s.includes(part)
RECURSIVE trim(_)
trim(s) ==
  IF s # "" /\ SubSeq(s, 1, 1) = " " THEN trim(SubSeq(s, 2, Len(s)))
  ELSE IF s # "" /\ SubSeq(s, Len(s), Len(s)) = " " THEN trim(SubSeq(s, 1, Len(s) - 1))
  ELSE s
includes(s, part) ==
  \E i \in 1..(Len(s) - Len(part) + 1) : SubSeq(s, i, i + Len(part) - 1) = part

\* ci.variant || (PRODUCTS_INDEX[ci.id] && PRODUCTS_INDEX[ci.id].shopify) || ""
\* Mutant of VariantOf: only the line's own reference is looked at.
VariantOfLine(ci, index) == ci.variant
VariantOf(ci, index) ==
  IF TruthyStr(ci.variant) THEN ci.variant
  ELSE IF ci.id \in DOMAIN index /\ TruthyStr(index[ci.id].shopify)
       THEN index[ci.id].shopify
  ELSE ""

\* The pairs CART.forEach pushes
RECURSIVE CheckoutPairs(_, _)
CheckoutPairs(lines, index) ==
  IF lines = <<>> THEN <<>>
  ELSE LET variant == VariantOf(Head(lines), index)
           rest == CheckoutPairs(Tail(lines), index)
       IN IF TruthyStr(variant) /\ TruthyStr(trim(variant))
          THEN <<variant \o ":" \o StringOf(IntToText(Head(lines).qty))>> \o rest
          ELSE rest

\* Mutant of buildShopifyCheckoutURL: the cart without lines gets the store's
\* address like every cart without pairs.
buildShopifyCheckoutURLNoGuard(cart, index) ==
  LET pairs == CheckoutPairs(Items(cart), index)
  IN IF Len(pairs) # 0
     THEN "https://" \o SHOP_DOMAIN \o "/cart/" \o join(pairs, ",")
     ELSE "https://" \o SHOP_DOMAIN

buildShopifyCheckoutURL(cart, index) ==
  IF ~IsArray(cart) \/ Len(cart.items) = 0 THEN ""
  ELSE LET pairs == CheckoutPairs(cart.items, index)
       IN IF Len(pairs) # 0
          THEN "https://" \o SHOP_DOMAIN \o "/cart/" \o join(pairs, ",")
          ELSE "https://" \o SHOP_DOMAIN

\* CART.map(i => `${i.title} x ${i.qty} - Rs${i.price}`).join("\n"), with
\* ASCII for the dash and the rupee sign
CheckoutSummary(lines) ==
  join([k \in 1..Len(lines) |->
          lines[k].title \o " x " \o StringOf(IntToText(lines[k].qty))
            \o " - Rs" \o StringOf(IntToText(lines[k].price))], "\n")

\* Mutant of proceedToCheckout: the check for an empty cart is missing.
proceedToCheckoutUnguarded(confirmed, copied) ==
  /\ Did("proceedToCheckout")
  /\ LET url == buildShopifyCheckoutURL(CART, PRODUCTS_INDEX)
     IN IF includes(url, "/cart/")
        THEN location' = url /\ UNCHANGED <<alerted, clipboard>>
        ELSE /\ clipboard' = IF copied THEN CheckoutSummary(Items(CART)) ELSE clipboard
             /\ location' = IF confirmed THEN "https://" \o SHOP_DOMAIN ELSE location
             /\ UNCHANGED alerted
  /\ UNCHANGED <<catalog, search, named, CART, WISHLIST, localStorage, quotaExceeded, cartSubtotal,
                 toast, toastTimer, timers>>

\* proceedToCheckout(): confirmed is the answer to the confirm() prompt,
\* copied tells whether navigator.clipboard.writeText put the text on the
\* clipboard.
proceedToCheckout(confirmed, copied) ==
  /\ Did("proceedToCheckout")
  /\ IF ~IsArray(CART) \/ Len(CART.items) = 0
     THEN alerted' = "Your cart is empty." /\ UNCHANGED <<location, clipboard>>
     ELSE LET url == buildShopifyCheckoutURL(CART, PRODUCTS_INDEX)
          IN IF includes(url, "/cart/")
             THEN location' = url /\ UNCHANGED <<alerted, clipboard>>
             ELSE /\ clipboard' = IF copied THEN CheckoutSummary(CART.items)
                                  ELSE clipboard
                  /\ location' = IF confirmed THEN "https://" \o SHOP_DOMAIN
                                 ELSE location
                  /\ UNCHANGED alerted
  /\ UNCHANGED <<catalog, search, named, CART, WISHLIST, localStorage, quotaExceeded, cartSubtotal,
                 toast, toastTimer, timers>>

(* ------------------------------- search ----------------------------- *)
\* s.toLowerCase() for the letters A to Z
UpperCase == "ABCDEFGHIJKLMNOPQRSTUVWXYZ"
LowerCase == "abcdefghijklmnopqrstuvwxyz"
toLowerCase(s) ==
  StringOf([i \in 1..Len(s) |->
              LET c == SubSeq(s, i, i)
              IN IF \E k \in 1..Len(UpperCase) : SubSeq(UpperCase, k, k) = c
                 THEN LET k == CHOOSE k \in 1..Len(UpperCase) : SubSeq(UpperCase, k, k) = c
                      IN SubSeq(LowerCase, k, k)
                 ELSE c])

\* DOM.searchResults before renderSearchResults has run, and after it has
\* run for a query: the products listed (Object.values lists the index's
\* integer keys in ascending order, so the set fixes the list)
Unrendered == [rendered |-> FALSE, ids |-> {}]
renderSearchResults(index, query) ==
  LET q == toLowerCase(trim(query))
  IN [rendered |-> TRUE,
      ids |-> {id \in DOMAIN index :
                 q = "" \/ includes(toLowerCase(index[id].title \o " "), q)}]

\* input event on the search field: the value changes, the pending debounce
\* timer is cleared and a new one is started
SearchInput(text) ==
  /\ Did("search-input")
  /\ searchInput' = text
  /\ LET cleared == clearTimeout(timers, searchTimer)
     IN /\ searchTimer' = NewTimerId(cleared, {toastTimer})
        /\ timers' = setTimeout(cleared, {toastTimer}, "renderSearchResults", DEBOUNCE_MS)
  /\ UNCHANGED <<catalog, browser, named, searchResults, CART, WISHLIST, localStorage,
                 quotaExceeded, cartSubtotal, toast, toastTimer>>

\* The debounce timer fires: the results for the field's value are rendered.
SearchTimeout ==
  /\ \E t \in timers : t.fn = "renderSearchResults" /\ timers' = timers \ {t}
  /\ Did("search-timeout")
  /\ searchResults' = renderSearchResults(PRODUCTS_INDEX, searchInput)
  /\ UNCHANGED <<catalog, browser, named, searchTimer, searchInput, CART, WISHLIST,
                 localStorage, quotaExceeded, cartSubtotal, toast, toastTimer>>

(* ------------- the name-keyed cart (src/unnamed/part_000) ----------- *)
\* JSON.stringify of the cart's items and JSON.parse of one of them
StringifyNamed(items) ==
  [json |-> "array",
   items |-> [i \in 1..Len(items) |->
                [json |-> "object", name |-> items[i].name,
                 price |-> IntToText(items[i].price),
                 quantity |-> IntToText(items[i].quantity)]]]
ParseNamed(t) ==
  [name |-> t.name, price |-> JSONNumber(t.price), quantity |-> JSONNumber(t.quantity)]

\* getCart(): JSON.parse(localStorage.getItem('desakCart')) || [].
\* JSON.parse(null) is null; text that is not JSON makes JSON.parse throw.
getCart(text) ==
  IF text.json \in {"absent", "null"} THEN [threw |-> "", value |-> JSArray(<<>>)]
  ELSE IF text.json = "invalid" THEN [threw |-> "SyntaxError", value |-> JSOther("undefined")]
  ELSE IF text.json = "array"
       THEN [threw |-> "",
             value |-> JSArray([i \in 1..Len(text.items) |-> ParseNamed(text.items[i])])]
  ELSE [threw |-> "", value |-> JSOther(text.json)]

\* parseFloat(btn.dataset.price): the value of the leading digits, NaN
\* without any
RECURSIVE LeadingDigits(_)
LeadingDigits(chars) ==
  IF chars = <<>> \/ ~IsDigit(Head(chars)) THEN <<>>
  ELSE <<Head(chars)>> \o LeadingDigits(Tail(chars))
parseFloat(chars) ==
  IF LeadingDigits(chars) = <<>> THEN NaN ELSE Num(DecimalValue(LeadingDigits(chars), 0))

\* n.toFixed(2) for an integer n
toFixed2(n) == StringOf(IntToText(n)) \o ".00"

NamedIndex(items, name) ==
  IF \E i \in 1..Len(items) : items[i].name = name
  THEN CHOOSE i \in 1..Len(items) :
         items[i].name = name /\ \A j \in 1..(i - 1) : items[j].name # name
  ELSE 0
RECURSIVE NamedTotal(_)
NamedTotal(items) ==
  IF items = <<>> THEN 0
  ELSE NamedTotal(SubSeq(items, 1, Len(items) - 1))
         + items[Len(items)].price * items[Len(items)].quantity

\* The cart page before updateCartDisplay has run
NoDisplay == [items |-> <<>>, total |-> "", empty |-> FALSE]

\* updateCartDisplay() on the cart page, for the stored text and the page as
\* it is: the exception that leaves it, and the page afterwards
updateCartDisplay(text, display) ==
  LET got == getCart(text)
  IN IF got.threw # "" THEN [threw |-> got.threw, display |-> display]
     ELSE IF ~IsArray(got.value)
          THEN [threw |-> "TypeError",
                display |-> [display EXCEPT !.items = <<>>, !.empty = FALSE]]
     ELSE IF Len(got.value.items) = 0
          THEN [threw |-> "", display |-> [items |-> <<>>, total |-> "", empty |-> TRUE]]
     ELSE [threw |-> "",
           display |-> [items |-> got.value.items,
                        total |-> "Total: Rs" \o toFixed2(NamedTotal(got.value.items)),
                        empty |-> FALSE]]

\* saveCart(cart): setItem throws when the quota is exceeded.
saveCartByName(text, quota, items) == IF quota THEN text ELSE StringifyNamed(items)

\* What a handler leaves when an exception ends it
NamedThrows(error) ==
  /\ thrown' = error
  /\ UNCHANGED <<desakCart, cartDisplay, cartToast, hideTimeout, timers>>

\* The rest of a handler from saveCart(cart) on: the save, the toast when
\* the handler shows it, the display
NamedSaveAndShow(items, toastName) ==
  LET text == saveCartByName(desakCart, quotaExceeded, items)
      shown == updateCartDisplay(text, cartDisplay)
  IN IF quotaExceeded THEN NamedThrows("QuotaExceededError")
     ELSE /\ desakCart' = text
          /\ IF toastName = "" THEN UNCHANGED <<cartToast, hideTimeout, timers>>
             ELSE LET cleared == clearTimeout(timers, hideTimeout)
                  IN /\ cartToast' = [show |-> TRUE, name |-> toastName]
                     /\ hideTimeout' = NewTimerId(cleared, {})
                     /\ timers' = setTimeout(cleared, {}, "hideCartToast", CART_TOAST_MS)
          /\ thrown' = shown.threw
          /\ cartDisplay' = shown.display

NamedFrame ==
  UNCHANGED <<catalog, browser, search, CART, WISHLIST, localStorage, quotaExceeded,
              cartSubtotal, toast, toastTimer>>

\* click on .add-to-cart-btn: addToCart(name, price)
addToCartByName(name, price) ==
  LET got == getCart(desakCart)
      items == got.value.items
      i == NamedIndex(items, name)
  IN /\ Did("addToCartByName")
     /\ IF got.threw # "" THEN NamedThrows(got.threw)
        ELSE IF ~IsArray(got.value) THEN NamedThrows("TypeError")
        ELSE IF i # 0
             THEN /\ items[i].quantity < MaxQty
                  /\ NamedSaveAndShow([items EXCEPT ![i].quantity = @ + 1], name)
        ELSE NamedSaveAndShow(
               Append(items, [name |-> name, price |-> parseFloat(price).v,
                              quantity |-> 1]), name)
     /\ NamedFrame

\* click on .remove-btn: removeFromCart(name)
removeFromCart(name) ==
  LET got == getCart(desakCart)
  IN /\ Did("removeFromCart")
     /\ IF got.threw # "" THEN NamedThrows(got.threw)
        ELSE IF ~IsArray(got.value) THEN NamedThrows("TypeError")
        ELSE NamedSaveAndShow(SelectSeq(got.value.items, LAMBDA x : x.name # name), "")
     /\ NamedFrame

\* change of a quantity field: updateQuantity(name, newQty)
updateQuantity(name, newQty) ==
  LET got == getCart(desakCart)
      items == got.value.items
      i == NamedIndex(items, name)
  IN /\ Did("updateQuantity")
     /\ IF got.threw # "" THEN NamedThrows(got.threw)
        ELSE IF ~IsArray(got.value) THEN NamedThrows("TypeError")
        ELSE IF i = 0
             THEN thrown' = "" /\ UNCHANGED <<desakCart, cartDisplay, cartToast,
                                             hideTimeout, timers>>
        ELSE IF newQty <= 0
             THEN NamedSaveAndShow(SelectSeq(items, LAMBDA x : x.name # name), "")
        ELSE NamedSaveAndShow([items EXCEPT ![i].quantity = newQty], "")
     /\ NamedFrame

\* The cart page is loaded: DOMContentLoaded calls updateCartDisplay().
NamedLoad ==
  LET shown == updateCartDisplay(desakCart, NoDisplay)
  IN /\ Did("updateCartDisplay")
     /\ thrown' = shown.threw
     /\ cartDisplay' = shown.display
     /\ cartToast' = [show |-> FALSE, name |-> ""]
     /\ hideTimeout' = 0
     /\ timers' = {}
     /\ UNCHANGED desakCart
     /\ NamedFrame

\* The toast's timer fires: toast.classList.remove('show')
NamedToastTimeout ==
  /\ \E t \in timers : t.fn = "hideCartToast" /\ timers' = timers \ {t}
  /\ Did("cart-toast-timeout")
  /\ cartToast' = [cartToast EXCEPT !.show = FALSE]
  /\ UNCHANGED <<desakCart, thrown, cartDisplay, hideTimeout>>
  /\ NamedFrame

(* ------------------------------ page load --------------------------- *)
\* The address of the page the script runs in
PageURL == "/"

\* What a fresh page shows before any operation
FreshToast == [show |-> FALSE, message |-> ""]

\* The script runs from the top and DOMContentLoaded fires: state is loaded
\* from localStorage, the index is built, the drawers are rendered.
Loaded(ls, markup) ==
  /\ CART' = LoadList(ls, CART_KEY)
  /\ WISHLIST' = LoadList(ls, WISHLIST_KEY)
  /\ grids' = GridsAtLoad(markup)
  /\ PRODUCTS_INDEX' = IndexAtLoad(markup)
  /\ cartSubtotal' = renderCartDrawer(CART')
  /\ toast' = FreshToast
  /\ toastTimer' = 0
  /\ timers' = {}
  /\ searchTimer' = 0
  /\ searchInput' = ""
  /\ searchResults' = Unrendered

Reload ==
  /\ Did("load")
  /\ Loaded(localStorage, page)
  /\ location' = PageURL
  /\ alerted' = ""
  /\ UNCHANGED <<page, localStorage, quotaExceeded, clipboard, named>>

\* What the two keys hold when the page is first opened: nothing, or text
\* this script did not write (text that is not JSON, JSON for an object, JSON
\* for null).
Stored(cart, wishlist) ==
  [k \in {CART_KEY, WISHLIST_KEY} |-> IF k = CART_KEY THEN cart ELSE wishlist]
InitialStorages ==
  {Stored(Absent, Absent),
   Stored([json |-> "invalid"], [json |-> "object"]),
   Stored([json |-> "null"], [json |-> "invalid"])}

\* The name-keyed cart page when it is opened with text stored
NamedOpened(text) ==
  /\ desakCart = text
  /\ thrown = updateCartDisplay(text, NoDisplay).threw
  /\ cartDisplay = updateCartDisplay(text, NoDisplay).display
  /\ cartToast = [show |-> FALSE, name |-> ""]
  /\ hideTimeout = 0

InitScript ==
  /\ page \in Pages
  /\ quotaExceeded \in BOOLEAN
  /\ localStorage \in InitialStorages
  /\ CART = LoadList(localStorage, CART_KEY)
  /\ WISHLIST = LoadList(localStorage, WISHLIST_KEY)
  /\ grids = GridsAtLoad(page)
  /\ PRODUCTS_INDEX = IndexAtLoad(page)
  /\ location = PageURL
  /\ alerted = ""
  /\ clipboard = ""
  /\ cartSubtotal = renderCartDrawer(CART)
  /\ toast = FreshToast
  /\ toastTimer = 0
  /\ timers = {}
  /\ searchTimer = 0
  /\ searchInput = ""
  /\ searchResults = Unrendered
  /\ last = "load"

Init == InitScript /\ NamedOpened(Absent)

(* ------------------------------ rebuild ----------------------------- *)
\* window.DESAK.rebuild(): buildProductsIndex(); renderProductsToGrids();
\* buildProductsIndex(); then the drawers are rendered. The first build still
\* reads the cards of the last rendering.
rebuild ==
  /\ Did("rebuild")
  /\ grids' = renderProductsToGrids(buildProductsIndex(page \o grids))
  /\ PRODUCTS_INDEX' = buildProductsIndex(page \o grids')
  /\ cartSubtotal' = renderCartDrawer(CART)
  /\ UNCHANGED <<page, browser, search, named, CART, WISHLIST, localStorage, quotaExceeded, toast,
                 toastTimer, timers>>

\* The host page replaces the product cards of its markup; the script sees
\* them at the next rebuild or load.
SetMarkup(markup) ==
  /\ Did("markup")
  /\ page # markup
  /\ page' = markup
  /\ UNCHANGED <<grids, PRODUCTS_INDEX, browser, search, named, CART, WISHLIST, localStorage,
                 quotaExceeded, cartSubtotal, toast, toastTimer, timers>>

(* ------------------------------- inputs ----------------------------- *)
\* Ids passed to the cart operations: a product of the static list, a
\* product only the page's markup has, and an id no product has.
CartIds == {"101", "501", "999"}
\* Ids passed to toggleWishlist
WishIds == {"201", "501", "999"}
Qtys == (-MaxStep)..MaxStep
\* changeCartQty also gets a decrement larger than any quantity.
Deltas == Qtys \cup {-(MaxQty + 2)}

CartOps ==
  \/ \E id \in CartIds, qty \in Qtys : addToCart(id, qty, TRUE)
  \/ \E id \in CartIds : removeCartItem(id)
  \/ \E id \in CartIds, delta \in Deltas : changeCartQty(id, delta)
  \/ \E confirmed \in BOOLEAN : clearCart(confirmed)

WishOps ==
  \/ \E id \in WishIds : toggleWishlist(id)
  \/ \E id \in WishIds : WishlistDrawerAdd(id)
  \/ \E id \in WishIds : WishlistDrawerRemove(id)

ToastOps == ToastTimeout \/ ToastClose

NextCart == CartOps \/ ToastOps \/ Reload
NextWish == WishOps \/ ToastOps \/ Reload

\* The page under the cart operations, and under the wishlist operations
\* (whose drawer also adds to the cart)
SpecCart == Init /\ [][NextCart]_vars
SpecWish == Init /\ [][NextWish]_vars

\* The cart and the wishlist operations together, as window.DESAK and the
\* drawers offer them, on one known product each and an id no product has;
\* addToCart is called without its toast.
StoreCartIds == {"101", "999"}
StoreWishIds == {"201", "999"}
StoreOps ==
  \/ \E id \in StoreCartIds, qty \in Qtys : addToCart(id, qty, FALSE)
  \/ \E id \in StoreCartIds : removeCartItem(id)
  \/ \E id \in StoreCartIds, delta \in Deltas : changeCartQty(id, delta)
  \/ \E confirmed \in BOOLEAN : clearCart(confirmed)
  \/ \E id \in StoreWishIds : toggleWishlist(id)
  \/ \E id \in StoreWishIds : WishlistDrawerAdd(id)
  \/ \E id \in StoreWishIds : WishlistDrawerRemove(id)
NextStore == StoreOps \/ Reload
SpecStore == Init /\ [][NextStore]_vars

\* The cart and the checkout on a page whose markup the host changes, from
\* a first visit on. Products are added when the cart has no line for them
\* and their quantity is stepped down. Handlers run while the page is shown;
\* after the checkout has left the page, the visitor can only come back to it.
ShopIds == {"101", "501"}
InitFirstVisit == Init /\ localStorage = Stored(Absent, Absent)
CheckoutOps ==
  \/ \E id \in ShopIds, qty \in 1..MaxStep :
       FindIndex(Items(CART), id) = 0 /\ addToCart(id, qty, FALSE)
  \/ \E id \in ShopIds : changeCartQty(id, -1)
  \/ \E confirmed, copied \in BOOLEAN : proceedToCheckout(confirmed, copied)
  \/ \E markup \in CheckoutPages : SetMarkup(markup)
  \/ rebuild
NextCheckout == (location = PageURL /\ CheckoutOps) \/ Reload
SpecCheckout == InitFirstVisit /\ [][NextCheckout]_vars

\* The cart on a page whose markup the host changes and whose catalog is
\* rebuilt
CatalogOps ==
  \/ \E id \in ShopIds, qty \in 1..MaxStep : addToCart(id, qty, FALSE)
  \/ \E id \in ShopIds, delta \in {-1, 1} : changeCartQty(id, delta)
  \/ \E markup \in CatalogPages : SetMarkup(markup)
  \/ rebuild
NextCatalog == CatalogOps \/ Reload
SpecCatalog == Init /\ [][NextCatalog]_vars

\* The toast and the search field with their timers: adds that show the
\* toast, the toast's buttons, typing, and the timers firing at any moment
SearchTexts == {"hood", " TOTE "}
TimerOps ==
  \/ \E id \in ShopIds : addToCart(id, 1, TRUE)
  \/ \E id \in ShopIds : removeCartItem(id)
  \/ ToastTimeout
  \/ ToastClose
  \/ \E text \in SearchTexts : SearchInput(text)
  \/ SearchTimeout
NextTimers == TimerOps \/ Reload
SpecTimers == InitFirstVisit /\ [][NextTimers]_vars

\* The toast with its delay: adds, clicks on the toast, time passing in steps
\* of the two configured delays, the timer firing when due
DelayOps ==
  \/ \E id \in ShopIds : addToCart(id, 1, TRUE)
  \/ ToastExpiry
  \/ ToastClose
  \/ \E d \in {DEBOUNCE_MS, TOAST_DURATION} : Elapse(d)
NextToast == DelayOps \/ Reload
SpecToast == InitFirstVisit /\ [][NextToast]_vars
\* The event loop runs a timer that is due, and time passes.
SpecToastFair ==
  /\ SpecToast
  /\ WF_vars(ToastExpiry)
  /\ WF_vars(Elapse(TOAST_DURATION))

\* The name-keyed cart page, opened with nothing stored under its key, with
\* text that is not JSON, or with JSON for null or for an object
NamedTexts == {Absent, [json |-> "invalid"], [json |-> "null"], [json |-> "object"]}
Buttons == {[name |-> "Hoodie", price |-> <<"9", "9", "9">>],
            [name |-> "Scarf", price |-> <<"4", "9", "9">>]}
InitNamed ==
  /\ InitScript
  /\ localStorage = Stored(Absent, Absent)
  /\ \E text \in NamedTexts : NamedOpened(text)
NamedOps ==
  \/ \E b \in Buttons : addToCartByName(b.name, b.price)
  \/ \E b \in Buttons : removeFromCart(b.name)
  \/ \E b \in Buttons, newQty \in 0..MaxQty : updateQuantity(b.name, newQty)
  \/ NamedLoad
  \/ NamedToastTimeout
NextNamed == NamedOps
SpecNamed == InitNamed /\ [][NextNamed]_vars

(* ============================== claims ============================== *)
Lines == Items(CART)
Ids == Items(WISHLIST)
HasLine(lines, id) == \E i \in 1..Len(lines) : lines[i].id = id
QtyOf(lines, id) == lines[CHOOSE k \in 1..Len(lines) : lines[k].id = id].qty

\* C1: in every reachable state the cart holds at most one line per product
\* id, whatever cart operations ran.
C1_OneLinePerId ==
  \A i, j \in 1..Len(Lines) : i # j => Lines[i].id # Lines[j].id

\* C1 witness: an addToCart found the line of its id and merged into it,
\* next to a line of another product.
C1_Witness ==
  /\ last = "addToCart"
  /\ Len(Lines) = 2
  /\ HasLine(Lines, "101") /\ QtyOf(Lines, "101") = 3
  /\ HasLine(Lines, "501")

\* C2 (as claimed): from every cart state, addToCart(id, n) followed at once
\* by changeCartQty(id, -n) gives back the cart the add started from.
RoundTrip(lines, id, n) ==
  LET added == CartAfterAdd(lines, id, PRODUCTS_INDEX[id], n)
      i == FindIndex(added, id)
  IN IF i = 0 THEN added ELSE CartAfterChange(added, i, -n)
C2_AddThenChangeRestores ==
  \A id \in CartIds \cap DOMAIN PRODUCTS_INDEX : \A n \in 1..MaxStep :
    RoundTrip(Lines, id, n) = Lines

\* C3 (as claimed): in every reachable state every cart line has a quantity
\* of at least 1.
C3_QtyAtLeastOne == \A i \in 1..Len(Lines) : Lines[i].qty >= 1

\* The sum of price * qty over the lines, taken from the last line back
RECURSIVE SumOfLines(_)
SumOfLines(lines) ==
  IF Len(lines) = 0 THEN 0
  ELSE SumOfLines(SubSeq(lines, 1, Len(lines) - 1))
       + lines[Len(lines)].price * lines[Len(lines)].qty

\* C4: after any sequence of cart operations the subtotal the cart drawer
\* shows is the sum of price * qty over the cart's lines, 0 for an empty cart.
C4_SubtotalIsSum ==
  /\ cartSubtotal = SumOfLines(Lines)
  /\ Len(Lines) = 0 => cartSubtotal = 0

\* C4 witness: a quantity change left two lines, and the drawer shows the
\* subtotal of both.
C4_Witness ==
  /\ last = "changeCartQty"
  /\ Len(Lines) = 2
  /\ Lines[1].id = "101" /\ Lines[1].qty = 2
  /\ cartSubtotal = 2 * 1099 + Lines[2].price * Lines[2].qty

\* The lines with the quantity of the line for id replaced by q
WithQty(lines, id, q) ==
  [k \in 1..Len(lines) |-> IF lines[k].id = id THEN [lines[k] EXCEPT !.qty = q]
                            ELSE lines[k]]

\* What addToCart(id, qty) does to the lines for a product p of the index:
\* an existing line gains qty, otherwise a line is appended with the quantity
\* newQty and the price newPrice (a JS number), the other fields copied from p.
AddedTo(before, after, id, p, qty, newQty, newPrice) ==
  IF HasLine(before, id)
  THEN after = WithQty(before, id, QtyOf(before, id) + qty)
  ELSE /\ Len(after) = Len(before) + 1
       /\ SubSeq(after, 1, Len(before)) = before
       /\ Num(after[Len(after)].price) = newPrice
       /\ [after[Len(after)] EXCEPT !.price = 0] =
            [id |-> id, title |-> p.title, price |-> 0, qty |-> newQty,
             img |-> p.image, variant |-> p.shopify]

\* C5 (as claimed): addToCart(id, qty) for a product of the index adds qty to
\* the existing line, and otherwise appends a line whose quantity is exactly
\* qty and whose price is the catalog entry's price.
C5_AddAsClaimed ==
  [][\A id \in CartIds \cap DOMAIN PRODUCTS_INDEX : \A qty \in Qtys :
       addToCart(id, qty, TRUE) =>
         AddedTo(Lines, Lines', id, PRODUCTS_INDEX[id], qty, qty,
                 PRODUCTS_INDEX[id].price)]_vars

\* C5 (amended): addToCart(id, qty) for a product of the index adds qty to the
\* existing line, and otherwise appends a line whose quantity is qty, or 1
\* when qty is 0, and whose price is the catalog entry's price, or 0 when
\* that price is NaN; title, image and variant are the catalog entry's.
C5_AddIncrementsOrAppends ==
  [][\A id \in CartIds \cap DOMAIN PRODUCTS_INDEX : \A qty \in Qtys :
       addToCart(id, qty, TRUE) =>
         AddedTo(Lines, Lines', id, PRODUCTS_INDEX[id], qty,
                 IF qty = 0 THEN 1 ELSE qty,
                 IF PRODUCTS_INDEX[id].price.nan THEN Num(0)
                 ELSE PRODUCTS_INDEX[id].price)]_vars

\* C5 witness: add("101", 1) and add("101", 2) made one line of quantity 3
\* at the price 1099, and the drawer shows 3297.
C5_Witness ==
  /\ last = "addToCart"
  /\ Len(Lines) = 1
  /\ Lines[1].id = "101" /\ Lines[1].qty = 3 /\ Lines[1].price = 1099
  /\ Lines[1].title = "Unisex Hoodie" /\ Lines[1].variant = ""
  /\ cartSubtotal = 3297

\* C6: changeCartQty(id, delta) adds delta to the quantity of the line for id;
\* a result of 0 or less removes the line; the other lines keep their content
\* and order; without a line for id the cart is unchanged; and when the last
\* line goes the subtotal shown is 0.
C6_ChangeQty ==
  [][\A id \in CartIds : \A delta \in Deltas :
       changeCartQty(id, delta) =>
         /\ IF ~HasLine(Lines, id) THEN Lines' = Lines
            ELSE IF QtyOf(Lines, id) + delta <= 0
                 THEN Lines' = SelectSeq(Lines, LAMBDA it : it.id # id)
                 ELSE Lines' = WithQty(Lines, id, QtyOf(Lines, id) + delta)
         /\ Len(Lines') = 0 => cartSubtotal' = 0]_vars

\* C6 witness: a changeCartQty took a line out of a cart that had been
\* saved with lines in it, and the drawer shows 0.
C6_Witness ==
  /\ last = "changeCartQty"
  /\ Len(Lines) = 0
  /\ cartSubtotal = 0
  /\ localStorage[CART_KEY] = JSONstringifyLines(<<>>)

\* C7: addToCart with an id the index does not have changes nothing: the
\* cart, the stored texts, the wishlist, the subtotal and the toast with its
\* timer stay as they are.
C7_UnknownIdIsNoOp ==
  [][\A id \in CartIds \ DOMAIN PRODUCTS_INDEX : \A qty \in Qtys :
       addToCart(id, qty, TRUE) =>
         UNCHANGED <<CART, localStorage, WISHLIST, cartSubtotal, toast, toastTimer,
                     timers>>]_vars

\* C7 witness: an addToCart has run and the cart is empty, which only a call
\* with an unknown id leaves behind; nothing was saved and no toast shows.
C7_Witness ==
  /\ last = "addToCart"
  /\ Len(Lines) = 0
  /\ ~toast.show /\ timers = {}
  /\ localStorage[CART_KEY] = Absent

\* A stored text that is missing, is not JSON, or is JSON for a non-array
Unusable(text) == text.json # "array"

\* C8: CART and WISHLIST are arrays in every reachable state, and a load from
\* a key whose text is missing, unparseable or no array leaves the list empty.
C8_ListsAreArrays ==
  /\ IsArray(CART) /\ IsArray(WISHLIST)
  /\ last = "load" =>
       /\ Unusable(localStorage[CART_KEY]) => CART.items = <<>>
       /\ Unusable(localStorage[WISHLIST_KEY]) => WISHLIST.items = <<>>

\* C8 witness: the page was loaded again after the wishlist had been saved:
\* the cart key still holds unparseable text and gives an empty cart, the
\* wishlist key gives the saved ids.
C8_Witness ==
  /\ last = "load"
  /\ localStorage[CART_KEY] = [json |-> "invalid"]
  /\ localStorage[WISHLIST_KEY] = JSONstringifyIds(<<"201">>)
  /\ CART = JSArray(<<>>) /\ WISHLIST = JSArray(<<"201">>)

\* id is one of the ids
Contains(ids, id) == \E k \in 1..Len(ids) : ids[k] = id

\* C9: toggleWishlist(id) flips the membership of id and of no other id, and
\* a second toggleWishlist(id) gives every id its original membership back.
C9_ToggleFlips ==
  [][\A id \in WishIds :
       toggleWishlist(id) =>
         LET twice == WishlistAfterToggle(WISHLIST', id)
         IN /\ Contains(Ids', id) = ~Contains(Ids, id)
            /\ \A o \in WishIds \ {id} : Contains(Ids', o) = Contains(Ids, o)
            /\ \A o \in WishIds : Contains(twice, o) = Contains(Ids, o)]_vars

\* C9 witness: a toggleWishlist emptied the wishlist, so the id it removed
\* had been put there by an earlier toggle.
C9_Witness ==
  /\ last = "toggleWishlist"
  /\ Ids = <<>>
  /\ localStorage[WISHLIST_KEY] = JSONstringifyIds(<<>>)

\* The ids of both lists, in the order of the first
Kept(ids, others) == SelectSeq(ids, LAMBDA x : Contains(others, x))

\* C10: the wishlist never holds an id twice, and every step keeps the ids
\* that stay in their order and puts an id that comes in behind them, so
\* that the ids are in the order of their most recent adds.
C10_WishlistOrdered ==
  [][/\ \A i, j \in 1..Len(Ids') : i # j => Ids'[i] # Ids'[j]
     /\ Kept(Ids', Ids) = Kept(Ids, Ids')
     /\ \A i, j \in 1..Len(Ids') :
          (~Contains(Ids, Ids'[i]) /\ Contains(Ids, Ids'[j])) => j < i]_vars

\* C10 witness: the wishlist holds two ids after a toggle, the drawer having
\* taken an id out before.
C10_Witness ==
  /\ last = "toggleWishlist"
  /\ Ids = <<"501", "201">>
  /\ HasLine(Lines, "201")

\* The operations that change CART or WISHLIST
MutatingOps == {"addToCart", "removeCartItem", "changeCartQty", "clearCart",
                "toggleWishlist", "add-from-wishlist", "remove-from-wishlist"}

\* C11: in a session whose storage writes succeed, after every operation
\* that changes CART or WISHLIST the two keys read back as the CART and the
\* WISHLIST in memory, a list the operation changed is stored as its own
\* serialization, and a page reload leaves CART, WISHLIST and the subtotal
\* as they were.
C11_SavedAfterEachOperation ==
  [][~quotaExceeded =>
       /\ last' \in MutatingOps =>
            /\ LoadList(localStorage', CART_KEY) = CART'
            /\ LoadList(localStorage', WISHLIST_KEY) = WISHLIST'
            /\ CART' # CART =>
                 localStorage'[CART_KEY] = JSONstringifyLines(Items(CART'))
            /\ WISHLIST' # WISHLIST =>
                 localStorage'[WISHLIST_KEY] = JSONstringifyIds(Items(WISHLIST'))
       /\ last' = "load" =>
            /\ CART' = CART
            /\ WISHLIST' = WISHLIST
            /\ cartSubtotal' = cartSubtotal]_vars

\* C11 witness: a reload in a session whose writes succeed has restored a
\* cart of two lines and a wishlist of one id from what the operations saved.
C11_Witness ==
  /\ ~quotaExceeded
  /\ last = "load"
  /\ Len(Lines) = 2
  /\ Ids = <<"999">>
  /\ localStorage[CART_KEY] = JSONstringifyLines(Lines)
  /\ localStorage[WISHLIST_KEY] = JSONstringifyIds(Ids)

\* C12: in a session whose storage writes fail, no step changes the storage,
\* and every cart and wishlist operation still does to the CART or WISHLIST
\* the earlier operations left what it does when the write succeeds, and
\* goes on to render the cart drawer.
C12_FailedWriteKeepsEffect ==
  [][quotaExceeded =>
       /\ localStorage' = localStorage
       /\ \A id \in StoreCartIds, qty \in Qtys :
            (addToCart(id, qty, FALSE) /\ id \in DOMAIN PRODUCTS_INDEX) =>
              /\ HasLine(Lines', id)
              /\ QtyOf(Lines', id) =
                   IF HasLine(Lines, id) THEN QtyOf(Lines, id) + qty
                   ELSE IF qty = 0 THEN 1 ELSE qty
       /\ \A id \in StoreCartIds : removeCartItem(id) => ~HasLine(Lines', id)
       /\ \A id \in StoreCartIds, delta \in Deltas :
            (changeCartQty(id, delta) /\ HasLine(Lines, id)) =>
              IF QtyOf(Lines, id) + delta <= 0 THEN ~HasLine(Lines', id)
              ELSE /\ HasLine(Lines', id)
                   /\ QtyOf(Lines', id) = QtyOf(Lines, id) + delta
       /\ clearCart(TRUE) => Lines' = <<>>
       /\ \A id \in StoreWishIds :
            /\ toggleWishlist(id) => Contains(Ids', id) # Contains(Ids, id)
            /\ WishlistDrawerAdd(id) => HasLine(Lines', id) /\ ~Contains(Ids', id)
            /\ WishlistDrawerRemove(id) => ~Contains(Ids', id)
       /\ last' \in MutatingOps => cartSubtotal' = SumOfLines(Lines')]_vars

\* C12 witness: in a session whose writes fail the cart holds a quantity that
\* takes two adds, next to a line the wishlist drawer added, and the wishlist
\* an id, while the storage is as the session found it.
C12_Witness ==
  /\ quotaExceeded
  /\ localStorage = Stored(Absent, Absent)
  /\ HasLine(Lines, "101") /\ QtyOf(Lines, "101") = MaxQty
  /\ HasLine(Lines, "201")
  /\ Ids = <<"999">>
  /\ cartSubtotal = SumOfLines(Lines)

\* The number of lines for id among the first k lines
LinesFor(lines, id, k) == Cardinality({j \in 1..k : lines[j].id = id})

C14_ClearAsClaimed ==
  [][last' = "clearCart" =>
       /\ Lines' = <<>>
       /\ localStorage'[CART_KEY] = JSONstringifyLines(<<>>)]_vars

\* C14: clearCart asks first. When the prompt is confirmed the cart is empty
\* afterwards, the drawer shows a subtotal of 0, and the stored cart is the
\* empty array when the write succeeds and what it was when the write fails;
\* when the prompt is cancelled the cart, the storage and the drawer stay as
\* they are.
C14_ClearWhenConfirmed ==
  [][\A confirmed \in BOOLEAN :
       clearCart(confirmed) =>
         IF confirmed
         THEN /\ Lines' = <<>>
              /\ cartSubtotal' = 0
              /\ localStorage' =
                   IF quotaExceeded THEN localStorage
                   ELSE [localStorage EXCEPT ![CART_KEY] = JSONstringifyLines(<<>>)]
         ELSE UNCHANGED <<CART, localStorage, cartSubtotal>>]_vars

\* C14 witness: a confirmed clearCart has emptied a cart the hoodie had been
\* added to, and the empty array is stored.
C14_Witness ==
  /\ last = "clearCart"
  /\ ~quotaExceeded
  /\ Lines = <<>>
  /\ cartSubtotal = 0
  /\ localStorage[CART_KEY] = JSONstringifyLines(<<>>)
  /\ toast.message = "Added - Unisex Hoodie"

\* The variant reference a cart line resolves to: its own, or the one the
\* catalog has for its id when the line has none
Resolved(line) ==
  IF line.variant # "" THEN line.variant
  ELSE IF line.id \in DOMAIN PRODUCTS_INDEX THEN PRODUCTS_INDEX[line.id].shopify
  ELSE ""
WithReference(lines) == SelectSeq(lines, LAMBDA line : Resolved(line) # "")

\* variantRef:qty of the lines, joined with commas
RECURSIVE PairsOf(_)
PairsOf(lines) ==
  IF lines = <<>> THEN ""
  ELSE (IF Len(lines) = 1 THEN "" ELSE PairsOf(SubSeq(lines, 1, Len(lines) - 1)) \o ",")
       \o Resolved(lines[Len(lines)]) \o ":"
       \o StringOf(IntToText(lines[Len(lines)].qty))

C16_OriginAsClaimed ==
  WithReference(Lines) = <<>> =>
    buildShopifyCheckoutURL(CART, PRODUCTS_INDEX) = "https://desak-sak.myshopify.com"

\* C16: for a cart that has lines none of which resolves to a variant
\* reference, the checkout URL is the bare store origin, and proceedToCheckout
\* navigates there when the prompt is confirmed and nowhere when it is not;
\* for the cart without lines the checkout URL is the empty string.
C16_OriginWithoutReferences ==
  [][WithReference(Lines) = <<>> =>
       IF Lines = <<>> THEN buildShopifyCheckoutURL(CART, PRODUCTS_INDEX) = ""
       ELSE /\ buildShopifyCheckoutURL(CART, PRODUCTS_INDEX)
                 = "https://desak-sak.myshopify.com"
            /\ \A confirmed, copied \in BOOLEAN :
                 proceedToCheckout(confirmed, copied) =>
                   location' = IF confirmed THEN "https://desak-sak.myshopify.com"
                               ELSE location]_vars

\* C16 witness: with two hoodies and nothing else in the cart, the checkout
\* has copied the summary and navigated to the store origin.
C16_Witness ==
  /\ last = "proceedToCheckout"
  /\ Len(Lines) = 1
  /\ Lines[1].id = "101" /\ Lines[1].qty = 2
  /\ clipboard = "Unisex Hoodie x 2 - Rs1099"
  /\ location = "https://desak-sak.myshopify.com"

\* C17: proceedToCheckout with a cart without lines alerts "Your cart is
\* empty." and does nothing else: the location, the cart, the wishlist, the
\* storage and the clipboard stay as they are.
C17_EmptyCartBlocksCheckout ==
  [][\A confirmed, copied \in BOOLEAN :
       (proceedToCheckout(confirmed, copied) /\ Lines = <<>>) =>
         /\ alerted' = "Your cart is empty."
         /\ UNCHANGED <<location, CART, WISHLIST, localStorage, clipboard>>]_vars

\* C17 witness: the checkout of a cart that was emptied after an earlier,
\* cancelled checkout has alerted, and the page is still shown.
C17_Witness ==
  /\ last = "proceedToCheckout"
  /\ alerted = "Your cart is empty."
  /\ Lines = <<>>
  /\ location = PageURL
  /\ clipboard = "Unisex Hoodie x 1 - Rs1099"

PriceOf(lines, id) == lines[CHOOSE k \in 1..Len(lines) : lines[k].id = id].price

\* C18: a line that addToCart creates takes the price the catalog has for
\* the product at that moment (0 when that is no number), and no step, a
\* rebuild of the catalog, an addToCart or a changeCartQty on the same id
\* among them, changes the price of a line that stays in the cart.
C18_PriceIsSnapshot ==
  [][\A id \in ShopIds :
       /\ (HasLine(Lines, id) /\ HasLine(Lines', id)) =>
            PriceOf(Lines', id) = PriceOf(Lines, id)
       /\ (~HasLine(Lines, id) /\ HasLine(Lines', id) /\ last' = "addToCart") =>
            Num(PriceOf(Lines', id)) =
              IF PRODUCTS_INDEX[id].price \in {NaN, Num(0)} THEN Num(0)
              ELSE PRODUCTS_INDEX[id].price]_vars

\* C18 witness: the tote's line was created at 450, the catalog was rebuilt
\* from other cards and has 650 for the tote, and a later addToCart has
\* brought the line to the largest quantity; the line's price is still 450.
C18_Witness ==
  /\ last = "addToCart"
  /\ HasLine(Lines, "501")
  /\ PriceOf(Lines, "501") = 450
  /\ QtyOf(Lines, "501") = MaxQty
  /\ PRODUCTS_INDEX["501"].price = Num(650)

Document == page \o grids
CardsFor(id) == SelectSeq(Document, LAMBDA card : card.id = id)

\* What a card carries for the title and for the price
TitleOn(card) == IF card.title # "" THEN card.title ELSE card.titleText
PriceOn(card) ==
  IF card.dataPrice # <<>> THEN card.dataPrice ELSE StripNonDigits(card.priceText)

\* The static list has the product and a value for the field.
SeedHas(id, field) ==
  /\ id \in DOMAIN SeedIndex
  /\ IF field = "price" THEN SeedIndex[id].price \notin {NaN, Num(0)}
     ELSE SeedIndex[id][field] # ""

\* C20: right after the index is built (at a load or a rebuild), a field the
\* static list provides has the static list's value, and a field it does not
\* provide has the value of the first card with that id that carries one.
C20_FirstWriteWins ==
  last \in {"load", "rebuild"} =>
    \A id \in DOMAIN PRODUCTS_INDEX :
      LET p == PRODUCTS_INDEX[id]
          titled == SelectSeq(CardsFor(id), LAMBDA card : TitleOn(card) # "")
          priced == SelectSeq(CardsFor(id), LAMBDA card : PriceOn(card) # <<>>)
          pictured == SelectSeq(CardsFor(id), LAMBDA card : card.img # "")
          linked == SelectSeq(CardsFor(id), LAMBDA card : card.link # "")
          referenced == SelectSeq(CardsFor(id), LAMBDA card : card.shopify # "")
      IN /\ IF SeedHas(id, "title") THEN p.title = SeedIndex[id].title
            ELSE titled # <<>> => p.title = TitleOn(titled[1])
         /\ IF SeedHas(id, "price") THEN p.price = SeedIndex[id].price
            ELSE priced # <<>> => p.price = NumberOfText(PriceOn(priced[1]))
         /\ IF SeedHas(id, "image") THEN p.image = SeedIndex[id].image
            ELSE pictured # <<>> => p.image = pictured[1].img
         /\ IF SeedHas(id, "url") THEN p.url = SeedIndex[id].url
            ELSE linked # <<>> => p.url = linked[1].link
         /\ IF SeedHas(id, "shopify") THEN p.shopify = SeedIndex[id].shopify
            ELSE referenced # <<>> => p.shopify = referenced[1].shopify

\* A price string with a character that is no digit
NonNumeric(chars) == \E i \in 1..Len(chars) : ~IsDigit(chars[i])

\* C21: every product of the index has a number as its price, and right
\* after the index is built a product whose price comes from a card with a
\* price string that is not numeric has the price 0.
C21_IndexedPriceIsNumber ==
  \A id \in DOMAIN PRODUCTS_INDEX :
    /\ ~PRODUCTS_INDEX[id].price.nan
    /\ (/\ last \in {"load", "rebuild"}
        /\ ~SeedHas(id, "price")
        /\ CardsFor(id) # <<>>
        /\ \A k \in 1..Len(CardsFor(id)) : NonNumeric(PriceOn(CardsFor(id)[k])))
       => PRODUCTS_INDEX[id].price = Num(0)

Pending(fn) == {t \in timers : t.fn = fn}

\* C22: in every reachable state at most one toast timer and at most one
\* search timer is pending, and a pending timer is the one whose handle the
\* script keeps, whatever the order of adds, typing, toast clicks and timer
\* expiries.
C22_OneTimerPerKind ==
  /\ Cardinality(Pending("hideToast")) <= 1
  /\ Cardinality(Pending("renderSearchResults")) <= 1
  /\ \A t \in Pending("hideToast") : t.id = toastTimer
  /\ \A t \in Pending("renderSearchResults") : t.id = searchTimer

\* C22 witness: after results were rendered and the toast was shown a second
\* time, typing has left one timer of each kind pending.
C22_Witness ==
  /\ last = "search-input"
  /\ searchResults.rendered
  /\ toast.show /\ toast.message = "Added - Canvas Tote"
  /\ HasLine(Lines, "101") /\ HasLine(Lines, "501")
  /\ Cardinality(Pending("hideToast")) = 1
  /\ Cardinality(Pending("renderSearchResults")) = 1

\* C23: getCart of the name-keyed cart tolerates missing or malformed data:
\* while the text under 'desakCart' is absent or is not valid JSON, getCart
\* returns an empty sequence without raising, and the last of addToCart,
\* removeFromCart, updateQuantity and updateCartDisplay has completed (no
\* exception left it, storage failures apart).
C23_GetCartTolerates ==
  desakCart.json \in {"absent", "invalid"}
    => /\ getCart(desakCart) = [threw |-> "", value |-> JSArray(<<>>)]
       /\ ~quotaExceeded => thrown = ""

\* Units in the cart: every successful add makes it larger.
RECURSIVE Units(_)
Units(lines) == IF lines = <<>> THEN 0 ELSE Head(lines).qty + Units(Tail(lines))
FullDelay == {[id |-> toastTimer, fn |-> "hideToast", ms |-> TOAST_DURATION]}

\* The parts of C24: visibility, an add while visible, hiding
C24_Visible == toast.show <=> Pending("hideToast") # {}
C24_Restart ==
  \A id \in ShopIds :
    (toast.show /\ addToCart(id, 1, TRUE))
      => /\ toast'.show
         /\ Pending("hideToast")' = FullDelay'
C24_Hidden(n) ==
  (toast.show /\ Units(Lines) = n) ~> (~toast.show \/ Units(Lines) # n)
\* C24: the toast is visible exactly while its auto-hide timer is pending;
\* once shown it is eventually hidden (by the timer or by a click on it)
\* unless another add occurs; and an add that arrives while the toast is
\* visible leaves one timer pending, with the full delay still to run.
C24_ToastLifetime ==
  /\ []C24_Visible
  /\ [][C24_Restart]_vars
  /\ \A n \in 0..(2 * MaxQty) : C24_Hidden(n)

\* C24 witness: a second add has shown the toast again and its timer has the
\* full delay to run.
C24_Witness ==
  /\ last = "addToCart"
  /\ toast.show /\ toast.message = "Added - Canvas Tote"
  /\ HasLine(Lines, "101") /\ HasLine(Lines, "501")
  /\ QtyOf(Lines, "501") = 2
  /\ Pending("hideToast") = FullDelay

SameWishlist ==
  /\ WISHLIST' = WISHLIST
  /\ localStorage'[WISHLIST_KEY] = localStorage[WISHLIST_KEY]
SameCart ==
  /\ CART' = CART
  /\ localStorage'[CART_KEY] = localStorage[CART_KEY]

\* C25: cart and wishlist are independent: addToCart, removeCartItem,
\* changeCartQty and clearCart leave WISHLIST and the text stored under the
\* wishlist key as they were, and toggleWishlist and the wishlist drawer's
\* remove button leave CART and the text stored under the cart key as they
\* were.
C25_Independent ==
  [][/\ \A id \in StoreCartIds, qty \in Qtys : addToCart(id, qty, FALSE) => SameWishlist
     /\ \A id \in StoreCartIds : removeCartItem(id) => SameWishlist
     /\ \A id \in StoreCartIds, delta \in Deltas : changeCartQty(id, delta) => SameWishlist
     /\ \A confirmed \in BOOLEAN : clearCart(confirmed) => SameWishlist
     /\ \A id \in StoreWishIds : toggleWishlist(id) => SameCart
     /\ \A id \in StoreWishIds : WishlistDrawerRemove(id) => SameCart]_vars

\* C25 witness: a cart operation has changed a cart that is stored while the
\* wishlist, stored too, holds an id.
C25_Witness ==
  /\ last = "changeCartQty"
  /\ HasLine(Lines, "101") /\ QtyOf(Lines, "101") = 2
  /\ isWishlisted(WISHLIST, "201")
  /\ localStorage[CART_KEY] = JSONstringifyLines(Lines)
  /\ localStorage[WISHLIST_KEY] = JSONstringifyIds(Ids)

\* C26: the wishlist drawer's "Add to Cart" moves an item: afterwards the id
\* is not in WISHLIST and the cart's quantity for it is one more than before
\* (a new line with qty 1 when there was none), so the id never leaves the
\* wishlist without the cart having changed.
C26_DrawerAddMoves ==
  [][\A id \in WishIds :
       WishlistDrawerAdd(id)
         => /\ ~isWishlisted(WISHLIST', id)
            /\ HasLine(Lines', id)
            /\ QtyOf(Lines', id) = IF HasLine(Lines, id) THEN QtyOf(Lines, id) + 1 ELSE 1
            /\ CART' # CART]_vars

\* C26 witness: the drawer has moved product 201 into a cart that already
\* had a line for it.
C26_Witness ==
  /\ last = "add-from-wishlist"
  /\ ~isWishlisted(WISHLIST, "201")
  /\ HasLine(Lines, "201") /\ QtyOf(Lines, "201") = 2

====
